---- MODULE Spec2Model ----
(***************************************************************************)
(* Model of src/app.py: the POST /generate pipeline (generate,             *)
(* generate_code, clean_html_code, upload_to_github).                      *)
(*                                                                         *)
(* Text returned by the completion API is a sequence of tokens, each token *)
(* standing for a literal piece of text:                                   *)
(*   "F" = ```      "H" = html     "U" = HTML     "D" = !DOCTYPE           *)
(*   "N" = newline  "S" = space    "x" = any other non-space character     *)
(*   "<" and ">" are themselves.                                           *)
(* Site names are sequences of characters drawn from classes:              *)
(*   "A" upper-case ASCII letter, "a" lower-case ASCII letter, "0" digit,  *)
(*   "-" hyphen, "_" other ASCII punctuation, " " space,                   *)
(*   "I." = U+0130, whose lower() is "i" followed by the combining dot     *)
(*   "cmb" (U+0307).                                                       *)
(***************************************************************************)
EXTENDS Integers, Sequences, FiniteSets, TLC

VARIABLES
  CONFIG,      \* TRUE when get_env_config() returned a mapping, FALSE when None
  body,        \* the request body of the POST /generate being handled
  pc,          \* position of the handler
  prompt,      \* generate: prompt (after strip)
  site_name,   \* generate: site_name
  modelIdx,    \* generate_code: index of the model of the for loop
  last_error,  \* generate_code: last_error
  html_code,   \* generate: html_code after clean_html_code
  safe_name,   \* upload_to_github: safe_name
  repo_name,   \* upload_to_github: repo_name, [base, suffix]
  attempt,     \* upload_to_github: attempt of range(10)
  calls,       \* log of the outbound calls made for this request
  response,    \* what the caller receives
  code_in,     \* clean_html_code: argument under study
  code_out,    \* clean_html_code(code_in)
  code_out2,   \* clean_html_code(code_out)
  name_in,     \* sanitizer: site_name under study
  name_out,    \* sanitizer: safe_name computed from name_in
  phase        \* position of the pure-function studies

vars == <<CONFIG, body, pc, prompt, site_name, modelIdx, last_error, html_code,
          safe_name, repo_name, attempt, calls, response,
          code_in, code_out, code_out2, name_in, name_out, phase>>

handlerVars == <<CONFIG, body, pc, prompt, site_name, modelIdx, last_error,
                 html_code, safe_name, repo_name, attempt, calls, response>>

studyVars == <<code_in, code_out, code_out2, name_in, name_out, phase>>

-----------------------------------------------------------------------------
(* Bounds *)

MaxCodeLen == 4
MaxNameLen == 4
MaxContentLen == 2
MaxSiteNameLen == 2

RECURSIVE SeqsUpTo(_, _)
SeqsUpTo(S, n) ==
  IF n = 0 THEN {<<>>}
  ELSE LET shorter == SeqsUpTo(S, n - 1)
       IN shorter \cup {Append(s, c) : s \in {t \in shorter : Len(t) = n - 1}, c \in S}

-----------------------------------------------------------------------------
(* str helpers *)

Tokens == {"F", "H", "U", "D", "N", "S", "x", "<", ">"}

IsSpace(c) == c \in {"N", "S", " "}

RECURSIVE SkipSpace(_, _)
\* index of the first element at or after i that is not whitespace (\s*)
SkipSpace(s, i) ==
  IF i <= Len(s) /\ IsSpace(s[i]) THEN SkipSpace(s, i + 1) ELSE i

RECURSIVE LStrip(_)
LStrip(s) == IF s # <<>> /\ IsSpace(Head(s)) THEN LStrip(Tail(s)) ELSE s

RECURSIVE RStrip(_)
RStrip(s) ==
  IF s # <<>> /\ IsSpace(s[Len(s)]) THEN RStrip(SubSeq(s, 1, Len(s) - 1)) ELSE s

\* str.strip()
Strip(s) == RStrip(LStrip(s))

\* str.startswith('<')
StartsWithLt(s) == s # <<>> /\ Head(s) = "<"

-----------------------------------------------------------------------------
(* clean_html_code *)

\* ^ under re.MULTILINE
AtLineStart(s, i) == i = 1 \/ s[i - 1] = "N"

\* $ under re.MULTILINE, tested at index i
AtLineEnd(s, i) == i > Len(s) \/ s[i] = "N"

RECURSIVE SubFenceOpen(_, _)
\* re.sub(r'^```(?:html)?\s*', '', code, flags=re.MULTILINE), scanning from i
SubFenceOpen(s, i) ==
  IF i > Len(s) THEN <<>>
  ELSE IF AtLineStart(s, i) /\ s[i] = "F"
       THEN LET j == IF i + 1 <= Len(s) /\ s[i + 1] = "H" THEN i + 2 ELSE i + 1
            IN SubFenceOpen(s, SkipSpace(s, j))
       ELSE <<s[i]>> \o SubFenceOpen(s, i + 1)

RECURSIVE SubFenceClose(_, _)
\* re.sub(r'\s*```$', '', code, flags=re.MULTILINE), scanning from i
SubFenceClose(s, i) ==
  IF i > Len(s) THEN <<>>
  ELSE LET k == SkipSpace(s, i)
       IN IF k <= Len(s) /\ s[k] = "F" /\ AtLineEnd(s, k + 1)
          THEN SubFenceClose(s, k + 1)
          ELSE <<s[i]>> \o SubFenceClose(s, i + 1)

\* (<!DOCTYPE[^>]*>|<html[^>]*>) with re.IGNORECASE matches at index i
TagAt(s, i) ==
  /\ i + 1 <= Len(s)
  /\ s[i] = "<"
  /\ s[i + 1] \in {"D", "H", "U"}
  /\ \E j \in (i + 2)..Len(s) : s[j] = ">"

\* re.search(...): match.start() as a 1-based index, 0 when there is no match
SearchTag(s) ==
  IF \E i \in 1..Len(s) : TagAt(s, i)
  THEN CHOOSE i \in 1..Len(s) : TagAt(s, i) /\ \A k \in 1..(i - 1) : ~TagAt(s, k)
  ELSE 0

\* the text after the two re.sub calls and strip()
StripFences(code) == Strip(SubFenceClose(SubFenceOpen(code, 1), 1))

\* variant: the slice code[match.start():] is not taken
clean_html_code_noslice(code) == StripFences(code)

clean_html_code(code) ==
  LET c == StripFences(code)
  IN IF ~StartsWithLt(c) /\ SearchTag(c) # 0
     THEN SubSeq(c, SearchTag(c), Len(c))
     ELSE c

-----------------------------------------------------------------------------
(* the name sanitizer of upload_to_github *)

NameChars == {"A", "a", "0", "-", "_", " ", "I."}

\* str.lower(), one character
LowerChar(c) ==
  CASE c = "A" -> <<"a">>
    [] c = "I." -> <<"i", "cmb">>
    [] OTHER -> <<c>>

RECURSIVE Lower(_)
Lower(s) == IF s = <<>> THEN <<>> ELSE LowerChar(Head(s)) \o Lower(Tail(s))

\* the class [a-zA-Z0-9-]
IsNameChar(c) == c \in {"A", "a", "i", "m", "y", "s", "t", "e", "0", "-"}

RECURSIVE ReplaceOthers(_)
\* re.sub(r'[^a-zA-Z0-9-]', '-', s)
ReplaceOthers(s) ==
  IF s = <<>> THEN <<>>
  ELSE <<IF IsNameChar(Head(s)) THEN Head(s) ELSE "-">> \o ReplaceOthers(Tail(s))

RECURSIVE CollapseHyphens(_)
\* re.sub(r'-+', '-', s)
CollapseHyphens(s) ==
  IF s = <<>> THEN <<>>
  ELSE IF Head(s) = "-" /\ Len(s) >= 2 /\ s[2] = "-" THEN CollapseHyphens(Tail(s))
  ELSE <<Head(s)>> \o CollapseHyphens(Tail(s))

RECURSIVE StripHyphens(_)
\* str.strip('-')
StripHyphens(s) ==
  IF s # <<>> /\ Head(s) = "-" THEN StripHyphens(Tail(s))
  ELSE IF s # <<>> /\ s[Len(s)] = "-" THEN StripHyphens(SubSeq(s, 1, Len(s) - 1))
  ELSE s

\* variant: the trailing .strip('-') is missing
Sanitize_nostrip(name) == CollapseHyphens(ReplaceOthers(Lower(name)))

Sanitize(name) == StripHyphens(CollapseHyphens(ReplaceOthers(Lower(name))))

-----------------------------------------------------------------------------
(* Studies of the two pure functions *)

StudyIdle ==
  /\ code_in = <<>> /\ code_out = <<>> /\ code_out2 = <<>>
  /\ name_in = <<>> /\ name_out = <<>> /\ phase = "idle"

HandlerIdle ==
  /\ CONFIG = TRUE
  /\ body = [kind |-> "absent",
             prompt |-> [kind |-> "missing", val |-> [lead |-> 0, core |-> 0, trail |-> 0]],
             name |-> [kind |-> "missing", val |-> <<>>]]
  /\ pc = "idle"
  /\ prompt = [lead |-> 0, core |-> 0, trail |-> 0] /\ site_name = <<>>
  /\ modelIdx = 0 /\ last_error = "None" /\ html_code = <<>>
  /\ safe_name = <<>> /\ repo_name = [base |-> <<>>, suffix |-> 0]
  /\ attempt = 0 /\ calls = <<>>
  /\ response = [kind |-> "none", status |-> 0, error |-> "",
                 repo |-> [base |-> <<>>, suffix |-> 0],
                 preview |-> [base |-> <<>>, suffix |-> 0],
                 repo_name |-> [base |-> <<>>, suffix |-> 0], code |-> <<>>]

InitClean ==
  /\ HandlerIdle
  /\ code_in \in SeqsUpTo(Tokens, MaxCodeLen)
  /\ code_out = <<>> /\ code_out2 = <<>>
  /\ name_in = <<>> /\ name_out = <<>>
  /\ phase = "input"

Clean ==
  /\ phase = "input"
  /\ code_out' = clean_html_code(code_in)
  /\ phase' = "cleaned"
  /\ UNCHANGED <<code_in, code_out2, name_in, name_out>>
  /\ UNCHANGED handlerVars

CleanAgain ==
  /\ phase = "cleaned"
  /\ code_out2' = clean_html_code(code_out)
  /\ phase' = "recleaned"
  /\ UNCHANGED <<code_in, code_out, name_in, name_out>>
  /\ UNCHANGED handlerVars

NextClean == Clean \/ CleanAgain

SpecClean == InitClean /\ [][NextClean]_vars

InitSanitize ==
  /\ HandlerIdle
  /\ name_in \in SeqsUpTo(NameChars, MaxNameLen)
  /\ name_out = <<>>
  /\ code_in = <<>> /\ code_out = <<>> /\ code_out2 = <<>>
  /\ phase = "input"

SanitizeName ==
  /\ phase = "input"
  /\ name_out' = Sanitize(name_in)
  /\ phase' = "sanitized"
  /\ UNCHANGED <<code_in, code_out, code_out2, name_in>>
  /\ UNCHANGED handlerVars

NextSanitize == SanitizeName

SpecSanitize == InitSanitize /\ [][NextSanitize]_vars

-----------------------------------------------------------------------------
(* POST /generate *)

MaxPromptLen == 2000
MinPromptLen == 5
RepoAttempts == 10

models_to_try_extra == <<"llama-3.1-8b-instant", "llama3-70b-8192", "gemma2-9b-it", "extra">>

models_to_try == <<"llama-3.1-8b-instant", "llama3-70b-8192", "gemma2-9b-it">>

\* a str is known here by the lengths of its leading whitespace, of its core
\* (first to last non-whitespace character) and of its trailing whitespace
PStr(l, c, t) == [lead |-> l, core |-> c, trail |-> t]
PEmpty == PStr(0, 0, 0)
PLen(p) == p.lead + p.core + p.trail
PStrip(p) == IF p.core = 0 THEN PEmpty ELSE PStr(0, p.core, 0)

PromptStrs ==
  {PStr(l, c, 0) : l \in {0, 1},
                   c \in {0, MinPromptLen - 1, MinPromptLen, MaxPromptLen, MaxPromptLen + 1}}

SiteNames == SeqsUpTo({"A", " ", "_"}, MaxSiteNameLen)

default_site_name == <<"m", "y", "-", "s", "i", "t", "e">>

\* request bodies: what request.get_json(silent=True) yields, and for a JSON
\* object the 'prompt' and 'name' members (missing, not a str, or a str)
PromptFields ==
  {[kind |-> k, val |-> PEmpty] : k \in {"missing", "nonstr"}}
    \cup {[kind |-> "str", val |-> p] : p \in PromptStrs}

NameFields ==
  {[kind |-> k, val |-> <<>>] : k \in {"missing", "nonstr"}}
    \cup {[kind |-> "str", val |-> n] : n \in SiteNames}

NoField == [kind |-> "missing", val |-> <<>>]

Bodies ==
  {[kind |-> k, prompt |-> [kind |-> "missing", val |-> PEmpty], name |-> NoField] :
      k \in {"absent", "not_json", "json_falsy", "json_nondict"}}
    \cup {[kind |-> "dict", prompt |-> p, name |-> n] : p \in PromptFields, n \in NameFields}

\* responses
NoRepo == [base |-> <<>>, suffix |-> 0]

ErrorResponse(msg, status) ==
  [kind |-> "error", status |-> status, error |-> msg,
   repo |-> NoRepo, preview |-> NoRepo, repo_name |-> NoRepo, code |-> <<>>]

\* an exception that leaves generate(): the framework answers, not the handler
Unhandled(exctype) ==
  [kind |-> "unhandled", status |-> 500, error |-> exctype,
   repo |-> NoRepo, preview |-> NoRepo, repo_name |-> NoRepo, code |-> <<>>]

SuccessResponse(name, code) ==
  [kind |-> "success", status |-> 200, error |-> "",
   repo |-> name, preview |-> name, repo_name |-> name, code |-> code]

\* exceptions
Exc(type, msg) == [type |-> type, msg |-> msg, status |-> 0, data |-> "none"]
GithubException(status, data) ==
  [type |-> "GithubException", msg |-> "github", status |-> status, data |-> data]

\* the except clauses of generate()
HandleException(e) ==
  CASE e.type = "RuntimeError" -> ErrorResponse(e.msg, 500)
    [] e.type = "GithubException" ->
         IF e.status = 401 THEN ErrorResponse("bad_github_token", 500)
         ELSE IF e.status = 403 THEN ErrorResponse("no_repo_scope", 500)
         ELSE IF e.data = "dict" THEN ErrorResponse("github_error", 500)
         ELSE Unhandled("AttributeError")   \* e.data.get on a non-mapping
    [] e.type = "ValueError" -> ErrorResponse(e.msg, 400)
    [] OTHER -> ErrorResponse("internal_error", 500)

Respond(r) == pc' = "done" /\ response' = r

\* log entries of outbound calls
Call(api, model, result, status, content) ==
  [api |-> api, model |-> model, result |-> result, status |-> status, content |-> content]

\* generate(), lines 265-275, and generate_code(), lines 62-67
Generate ==
  /\ pc = "generate"
  /\ UNCHANGED <<CONFIG, body, last_error, html_code, safe_name, repo_name, attempt, calls>>
  /\ UNCHANGED studyVars
  /\ IF ~CONFIG
     THEN Respond(ErrorResponse("not_configured", 503))
          /\ UNCHANGED <<prompt, site_name, modelIdx>>
     ELSE IF body.kind = "json_nondict" \/ (body.kind = "dict" /\ body.prompt.kind = "nonstr")
     THEN Respond(Unhandled("AttributeError"))
          /\ UNCHANGED <<prompt, site_name, modelIdx>>
     ELSE LET data == IF body.kind = "dict" THEN body
                      ELSE [kind |-> "dict", prompt |-> [kind |-> "missing", val |-> PEmpty],
                            name |-> NoField]
              p == IF data.prompt.kind = "missing" THEN PEmpty ELSE PStrip(data.prompt.val)
              n == IF data.name.kind = "missing" THEN default_site_name
                   ELSE IF Strip(data.name.val) = <<>> THEN default_site_name
                   ELSE Strip(data.name.val)
          IN /\ prompt' = p
             /\ IF data.name.kind = "nonstr"
                THEN Respond(Unhandled("AttributeError"))
                     /\ UNCHANGED <<site_name, modelIdx>>
                ELSE /\ site_name' = n
                     /\ IF PLen(p) = 0
                        THEN Respond(ErrorResponse("prompt_required", 400))
                             /\ UNCHANGED modelIdx
                        ELSE IF PLen(p) > MaxPromptLen
                        THEN Respond(ErrorResponse("prompt_too_long", 400))
                             /\ UNCHANGED modelIdx
                        ELSE IF PLen(p) = 0 \/ PLen(PStrip(p)) < MinPromptLen
                        THEN Respond(HandleException(Exc("ValueError", "prompt_too_short")))
                             /\ UNCHANGED modelIdx
                        ELSE /\ pc' = "generate_code"
                             /\ modelIdx' = 1
                             /\ UNCHANGED response

\* what one requests.post to the completion API can do
CompletionStatuses == {400, 401, 403, 404, 429, 503}

Contents == SeqsUpTo({"F", "<", "x"}, MaxContentLen)

CompletionOutcomes ==
  {[kind |-> "timeout", status |-> 0, content |-> <<>>]}
    \cup {[kind |-> "status", status |-> st, content |-> <<>>] : st \in CompletionStatuses}
    \cup {[kind |-> k, status |-> 200, content |-> <<>>] :
             k \in {"malformed", "no_choices", "null_content"}}
    \cup {[kind |-> "content", status |-> 200, content |-> c] : c \in Contents}

\* lines 134-148: the statuses for which generate_code raises RuntimeError
StatusRaises(st) == st \in {401, 400, 403, 429} \/ st >= 500

\* variant: the check of line 282 always passes
ValidHtml_any(code) == TRUE

\* line 282
ValidHtml(code) == StartsWithLt(Strip(code))

\* one iteration of the for loop of generate_code; on a returned content the
\* rest of generate() up to the first create_repo (lines 280-286, 191-203)
CompletionCall ==
  /\ pc = "generate_code"
  /\ modelIdx <= Len(models_to_try)
  /\ UNCHANGED <<CONFIG, body, prompt, site_name, attempt>>
  /\ UNCHANGED studyVars
  /\ \E out \in CompletionOutcomes :
       LET model == models_to_try[modelIdx]
           continue(err) ==
             /\ last_error' = err
             /\ modelIdx' = modelIdx + 1
             /\ UNCHANGED <<html_code, safe_name, repo_name>>
             /\ IF modelIdx = Len(models_to_try)
                THEN Respond(HandleException(Exc("RuntimeError", "no_answer_from_groq")))
                ELSE UNCHANGED <<pc, response>>
           raise(e) ==
             /\ Respond(HandleException(e))
             /\ UNCHANGED <<last_error, modelIdx, html_code, safe_name, repo_name>>
       IN /\ calls' = Append(calls, Call("completion", model, out.kind, out.status, out.content))
          /\ CASE out.kind = "timeout" -> continue("exception")
               [] out.kind = "status" ->
                    IF StatusRaises(out.status)
                    THEN raise(Exc("RuntimeError", "groq_status"))
                    ELSE continue("status")
               [] out.kind = "malformed" -> continue("exception")
               [] out.kind = "no_choices" -> raise(Exc("RuntimeError", "no_choices"))
               [] out.kind = "null_content" -> raise(Exc("TypeError", "re.sub"))
               [] out.kind = "content" ->
                    LET cleaned == clean_html_code(out.content)
                    IN /\ html_code' = cleaned
                       /\ UNCHANGED <<last_error, modelIdx>>
                       /\ IF ~ValidHtml(cleaned)
                          THEN /\ Respond(HandleException(Exc("ValueError", "bad_html")))
                               /\ UNCHANGED <<safe_name, repo_name>>
                          ELSE /\ safe_name' = Sanitize(site_name)
                               /\ repo_name' = [base |-> <<"site-">> \o Sanitize(site_name),
                                                suffix |-> 0]
                               /\ pc' = "create_repo"
                               /\ UNCHANGED response

\* the names bound when line 216 is evaluated (module globals and the locals of
\* upload_to_github)
BoundNames ==
  {"CONFIG", "random", "logger", "code_content", "site_name", "g", "user",
   "safe_name", "base_repo_name", "repo_name", "attempt", "e"}

GithubStatuses == {401, 403, 404, 422}

RepoOutcomes ==
  {[kind |-> "created", status |-> 201, data |-> "dict"],
   [kind |-> "timeout", status |-> 0, data |-> "none"]}
    \cup {[kind |-> "github_exception", status |-> st, data |-> d] :
             st \in GithubStatuses, d \in {"dict", "none"}}

RandomSuffixes == {1000, 9999}

\* one iteration of the for loop of upload_to_github (lines 204-220)
CreateRepo ==
  /\ pc = "create_repo"
  /\ attempt < RepoAttempts
  /\ UNCHANGED <<CONFIG, body, prompt, site_name, modelIdx, last_error, html_code, safe_name>>
  /\ UNCHANGED studyVars
  /\ \E out \in RepoOutcomes :
       /\ calls' = Append(calls, Call("create_repo", "", out.kind, out.status, <<>>))
       /\ CASE out.kind = "created" ->
                 /\ pc' = "create_file"
                 /\ UNCHANGED <<repo_name, attempt, response>>
            [] out.kind = "timeout" ->
                 /\ Respond(HandleException(Exc("Timeout", "timeout")))
                 /\ UNCHANGED <<repo_name, attempt>>
            [] out.kind = "github_exception" /\ out.status = 422 ->
                 IF "base_name" \in BoundNames
                 THEN /\ \E r \in RandomSuffixes :
                           repo_name' = [base |-> <<"site-">> \o safe_name, suffix |-> r]
                      /\ attempt' = attempt + 1
                      /\ IF attempt + 1 = RepoAttempts
                         THEN Respond(HandleException(Exc("RuntimeError", "no_unique_name")))
                         ELSE UNCHANGED <<pc, response>>
                 ELSE /\ Respond(HandleException(Exc("NameError", "base_name")))
                      /\ UNCHANGED <<repo_name, attempt>>
            [] OTHER ->
                 /\ Respond(HandleException(GithubException(out.status, out.data)))
                 /\ UNCHANGED <<repo_name, attempt>>

FileOutcomes ==
  {[kind |-> "created", status |-> 201, data |-> "dict"],
   [kind |-> "timeout", status |-> 0, data |-> "none"]}
    \cup {[kind |-> "github_exception", status |-> st, data |-> d] :
             st \in GithubStatuses, d \in {"dict", "none"}}

\* repo.create_file and the return of generate() (lines 223-232, 287-298)
CreateFile ==
  /\ pc = "create_file"
  /\ UNCHANGED <<CONFIG, body, prompt, site_name, modelIdx, last_error, html_code,
                 safe_name, repo_name, attempt>>
  /\ UNCHANGED studyVars
  /\ \E out \in FileOutcomes :
       /\ calls' = Append(calls, Call("create_file", "", out.kind, out.status, <<>>))
       /\ CASE out.kind = "created" -> Respond(SuccessResponse(repo_name, html_code))
            [] out.kind = "timeout" -> Respond(HandleException(Exc("Timeout", "timeout")))
            [] OTHER -> Respond(HandleException(GithubException(out.status, out.data)))

Init ==
  /\ CONFIG \in BOOLEAN
  /\ body \in Bodies
  /\ pc = "generate"
  /\ prompt = PEmpty
  /\ site_name = <<>>
  /\ modelIdx = 0
  /\ last_error = "None"
  /\ html_code = <<>>
  /\ safe_name = <<>>
  /\ repo_name = NoRepo
  /\ attempt = 0
  /\ calls = <<>>
  /\ response = [kind |-> "none", status |-> 0, error |-> "",
                 repo |-> NoRepo, preview |-> NoRepo, repo_name |-> NoRepo, code |-> <<>>]
  /\ StudyIdle

Next == Generate \/ CompletionCall \/ CreateRepo \/ CreateFile

Spec == Init /\ [][Next]_vars

\* every outbound call returns or raises, and the handler thread keeps running
FairSpec == Spec /\ WF_vars(Next)

-----------------------------------------------------------------------------
(* Properties *)

Done == pc = "done"

CallIdx(api) == {i \in 1..Len(calls) : calls[i].api = api}
NumCalls(api) == Cardinality(CallIdx(api))
HostingIdx == CallIdx("create_repo") \cup CallIdx("create_file")

\* C1: every POST /generate ends in the success object or in {"error": ...}
\* with status 400, 500, 503 or 504; no exception leaves the handler.
C1_AlwaysSuccessOrJsonError ==
  Done =>
    \/ response.kind = "success"
    \/ response.kind = "error" /\ response.status \in {400, 500, 503, 504}

\* C2: when the completion request timed out for the models tried, or a
\* hosting-API call timed out, the response has status 504.
C2_TimeoutGives504 ==
  LET completionTimedOut ==
        /\ NumCalls("completion") = Len(models_to_try)
        /\ \A i \in CallIdx("completion") : calls[i].result = "timeout"
      hostingTimedOut == \E i \in HostingIdx : calls[i].result = "timeout"
  IN (Done /\ (completionTimedOut \/ hostingTimedOut)) => response.status = 504

\* C3: after any non-200 answer of the completion API the next model of the
\* list is tried, in list order; generate_code fails only after every model has
\* been tried; a model that returns a content is the last one asked.
C3_FallbackOnAnyNon200 ==
  /\ \A i \in CallIdx("completion") :
       (calls[i].result = "status" /\ i < Len(models_to_try)) =>
          \/ Len(calls) > i /\ calls[i + 1].api = "completion"
                            /\ calls[i + 1].model = models_to_try[i + 1]
          \/ Len(calls) = i /\ pc = "generate_code" /\ modelIdx = i + 1
  /\ (Done /\ response.kind = "error" /\ calls # <<>>
        /\ calls[Len(calls)].api = "completion" /\ calls[Len(calls)].status # 200)
       => NumCalls("completion") = Len(models_to_try)
  /\ \A i \in CallIdx("completion") :
       calls[i].result = "content" => \A k \in CallIdx("completion") : k <= i

\* C4: after a 422 on repository creation the next attempt uses
\* site-<sanitized name>-<1000..9999>; creation is attempted up to 10 times and
\* fails with the unique-name error only after 10 collisions.
C4_CollisionRetriesTenTimes ==
  \A i \in CallIdx("create_repo") :
    LET nth == Cardinality({k \in CallIdx("create_repo") : k <= i})
    IN calls[i].status = 422 =>
         IF nth < RepoAttempts
         THEN \/ Len(calls) > i /\ calls[i + 1].api = "create_repo"
              \/ /\ Len(calls) = i /\ pc = "create_repo"
                 /\ repo_name.base = <<"site-">> \o safe_name
                 /\ repo_name.suffix \in 1000..9999
         ELSE Done /\ response.kind = "error" /\ response.error = "no_unique_name"

\* the prompt of the request is missing, empty or whitespace-only, longer than
\* 2000 characters after stripping, or shorter than 5 after stripping
InvalidPrompt(b) ==
  \/ b.kind \in {"absent", "not_json", "json_falsy"}
  \/ /\ b.kind = "dict"
     /\ \/ b.prompt.kind = "missing"
        \/ /\ b.prompt.kind = "str"
           /\ \/ b.prompt.val.core = 0
              \/ b.prompt.val.core > MaxPromptLen
              \/ b.prompt.val.core < MinPromptLen

\* C5: with configuration loaded, a request with an invalid prompt is answered
\* with HTTP 400 and an error body, and no outbound call is made for it.
C5_InvalidPromptGives400 ==
  (Done /\ CONFIG /\ InvalidPrompt(body)) =>
     /\ response.kind = "error"
     /\ response.status = 400
     /\ calls = <<>>

\* index of the first <!DOCTYPE ...> or <html ...> tag of s when other
\* non-whitespace text precedes it, else 0
FirstTagAfterText(s) ==
  LET i == SearchTag(s)
  IN IF i # 0 /\ \E k \in 1..(i - 1) : ~IsSpace(s[k]) THEN i ELSE 0

\* C6 as stated: whenever a tag is preceded by other non-whitespace text, the
\* result of clean_html_code begins with a tag, whatever the leading text is.
C6_ResultBeginsWithTag ==
  (phase # "input" /\ FirstTagAfterText(code_in) # 0) => TagAt(code_out, 1)

\* C6 amended: whenever a tag is preceded by other non-whitespace text and the
\* text left by fence removal and trimming does not start with '<', the result
\* begins with the first tag and is the cleaned text from that tag on; when that
\* text starts with '<' the result is that text, leading part included.
C6_ResultBeginsWithTagUnlessLt ==
  (phase # "input" /\ FirstTagAfterText(code_in) # 0) =>
     IF ~StartsWithLt(StripFences(code_in))
     THEN /\ TagAt(code_out, 1)
          /\ code_out = StripFences(SubSeq(code_in, FirstTagAfterText(code_in), Len(code_in)))
     ELSE /\ code_out = StripFences(code_in)
          /\ StartsWithLt(code_out)

C6_Witness ==
  /\ phase = "cleaned"
  /\ FirstTagAfterText(code_in) # 0
  /\ ~StartsWithLt(StripFences(code_in))
  /\ Len(code_out) < Len(code_in)
  /\ TagAt(code_out, 1)

\* a line made of a triple-backtick fence, at the start or at the end of s
HasFenceAtEnds(s) ==
  /\ s # <<>>
  /\ \/ Head(s) = "F" /\ (Len(s) = 1 \/ s[2] = "N" \/ (s[2] = "H" /\ (Len(s) = 2 \/ s[3] = "N")))
     \/ s[Len(s)] = "F" /\ (Len(s) = 1 \/ s[Len(s) - 1] = "N")

\* C7: clean_html_code is idempotent and its result has no leading or
\* trailing fence line.
C7_CleanIdempotent ==
  (phase = "recleaned") => (code_out2 = code_out /\ ~HasFenceAtEnds(code_out))

\* [a-z0-9]
IsLowerAlnum(c) == c \in {"a", "i", "m", "y", "s", "t", "e", "0"}

RECURSIVE DropRun(_)
DropRun(s) == IF s # <<>> /\ ~IsLowerAlnum(Head(s)) THEN DropRun(Tail(s)) ELSE s

RECURSIVE RunsToHyphen(_)
\* every maximal run of characters outside [a-z0-9] becomes one hyphen
RunsToHyphen(s) ==
  IF s = <<>> THEN <<>>
  ELSE IF IsLowerAlnum(Head(s)) THEN <<Head(s)>> \o RunsToHyphen(Tail(s))
  ELSE <<"-">> \o RunsToHyphen(DropRun(s))

\* s without a hyphen at either end; s has no two adjacent hyphens
TrimEnds(s) ==
  LET a == IF s # <<>> /\ Head(s) = "-" THEN 2 ELSE 1
      b == IF Len(s) >= a /\ s[Len(s)] = "-" THEN Len(s) - 1 ELSE Len(s)
  IN SubSeq(s, a, b)

\* C8: the sanitized name is the lowercased name with every maximal run of
\* characters outside [a-z0-9] replaced by one hyphen (none at the ends): only
\* lowercase letters, digits and hyphens, no two adjacent hyphens, no hyphen
\* first or last.
C8_SanitizedName ==
  (phase = "sanitized") =>
     /\ \A i \in 1..Len(name_out) : IsLowerAlnum(name_out[i]) \/ name_out[i] = "-"
     /\ \A i \in 1..(Len(name_out) - 1) : ~(name_out[i] = "-" /\ name_out[i + 1] = "-")
     /\ name_out # <<>> => (name_out[1] # "-" /\ name_out[Len(name_out)] # "-")
     /\ name_out = TrimEnds(RunsToHyphen(Lower(name_in)))

C8_Witness ==
  /\ phase = "sanitized"
  /\ Len(name_in) >= 3
  /\ ~IsLowerAlnum(name_in[1]) /\ ~IsLowerAlnum(name_in[Len(name_in)])
  /\ \E i \in 1..Len(name_out) : name_out[i] = "-"

\* C9: repository creation only after a completion call returned a content
\* whose cleaned form starts with '<'; file creation only after a successful
\* repository creation; success only after a successful file creation, with
\* that cleaned text as code; a cleaned text not starting with '<' leads to an
\* error without any hosting-API call.
C9_CallsOrderedAndGated ==
  /\ \A i \in CallIdx("create_repo") :
       \E k \in CallIdx("completion") :
          /\ k < i
          /\ calls[k].result = "content"
          /\ html_code = clean_html_code(calls[k].content)
          /\ StartsWithLt(html_code)
  /\ \A i \in CallIdx("create_file") :
       \E k \in CallIdx("create_repo") : k < i /\ calls[k].result = "created"
  /\ (Done /\ response.kind = "success") =>
       /\ calls # <<>>
       /\ calls[Len(calls)].api = "create_file"
       /\ calls[Len(calls)].result = "created"
       /\ response.code = html_code
       /\ StartsWithLt(response.code)
  /\ \A k \in CallIdx("completion") :
       (calls[k].result = "content" /\ ~StartsWithLt(clean_html_code(calls[k].content))) =>
          /\ HostingIdx = {}
          /\ Done /\ response.kind = "error"

C9_Witness ==
  /\ Done /\ response.kind = "success"
  /\ NumCalls("completion") >= 2
  /\ NumCalls("create_repo") = 1 /\ NumCalls("create_file") = 1

C10_Budget ==
  /\ NumCalls("completion") <= 3
  /\ NumCalls("create_repo") <= 10
  /\ NumCalls("create_file") <= 1
  /\ \A i, k \in CallIdx("completion") : i # k => calls[i].model # calls[k].model
  /\ Done => response.kind # "none"

\* C10: the handling of a request ends with a response after at most 3
\* completion calls (one per model), 10 repository-creation calls and 1
\* file-creation call.
C10_TerminatesWithinBudget == []C10_Budget /\ <>Done

C10_Witness ==
  /\ Done
  /\ NumCalls("completion") = 3
  /\ NumCalls("create_repo") = 1 /\ NumCalls("create_file") = 1

====
